---- MODULE Spec2Model ----
(***************************************************************************)
(* Seat-assignment engine of the classroom seater: the seven arrangement   *)
(* strategies and generateSeatingChart (client/src/lib/                    *)
(* seating-algorithms.ts), the seat-count resolver getSeatCount            *)
(* (client/src/pages/seating-chart.tsx), the geometry generator            *)
(* generateLayoutPositions (the seating-chart-grid component) and the      *)
(* validator / scorer (seating-algorithms.ts).                             *)
(***************************************************************************)
EXTENDS Integers, Sequences, FiniteSets, TLC

VARIABLES
    students,      \* the roster handed to the engine (sequence of Student)
    strategy,      \* strategy name
    layout,        \* layout kind
    totalSeats,    \* seat count handed to generateSeatingChart
    seats,         \* the chart: sequence of [position, studentId]
    arrangement,   \* the ordering the strategy produced in the last call
    calls,         \* number of generateSeatingChart calls made so far
    studentCount,  \* students.length as the seat-count resolver sees it
    seatCount,     \* last result of getSeatCount / input of the geometry
    positions,     \* last result of generateLayoutPositions
    validation,    \* last result of validateSeatingArrangement
    assessment,    \* last result of assessSeatingEffectiveness
    conflictResult, \* last results of hasAvoidConflict, in both argument orders
    draggedStudent, \* id of the student of the grid's draggedStudent, or null
    pc             \* which operation ran last

vars == <<students, strategy, layout, totalSeats, seats, arrangement, calls,
          studentCount, seatCount, positions, validation, assessment,
          conflictResult, draggedStudent, pc>>

-----------------------------------------------------------------------------
(* Bounds of the model *)

MaxStudents  == 3    \* roster size
MaxConflicts == 2    \* students one student is in conflict with
MaxPartners  == 2    \* works-well-with entries of one student
MaxCalls     == 2    \* generateSeatingChart calls per behaviour
MaxStudentCount == 34  \* student count handed to getSeatCount
MaxSeatCount == 40   \* seat count handed to generateLayoutPositions
MaxChartSeats == 7   \* seats of a chart handed to validateSeatingArrangement
MaxScoredSeats == 5  \* seats of a chart handed to assessSeatingEffectiveness
MaxScored    == 2    \* roster size handed to assessSeatingEffectiveness
MaxClique    == 4    \* size of a roster in which everybody avoids everybody
MaxListed    == 2    \* names of an avoid-pairing list handed to hasAvoidConflict

\* totalSeats handed to generateSeatingChart: up to one seat to spare
MaxSeats == MaxStudents + 1

-----------------------------------------------------------------------------
(* Values *)

Null == "null"                       \* studentId: null
NaN  == -1                           \* stands for NaN (no count is negative)
None == "none"                       \* a result not computed yet

StrategyNames == {"mixed-ability", "skill-clustering", "language-support",
                  "collaborative-pairs", "attention-zone",
                  "behavior-management", "random"}
UnknownStrategy == "alphabetical"    \* a name the switch does not know

SkillLevels == {"beginner", "intermediate", "advanced"}
\* skill_level is a text column and POST /api/students takes any string
UnknownSkillLevel == "expert"

LayoutKinds == {"traditional-rows", "stadium", "horseshoe", "double-horseshoe",
                "circle", "groups", "pairs"}
\* kinds that are none of the seven: a plain one, and one that is the name of
\* a property every object inherits from Object.prototype
UnknownLayouts == {"u-shape", "constructor"}
ObjectPrototypeKeys == {"constructor", "toString", "valueOf", "hasOwnProperty",
                        "isPrototypeOf", "propertyIsEnumerable",
                        "toLocaleString", "__proto__"}

IdOf     == <<"s1", "s2", "s3", "s4", "s5", "s6">>
NameOf   == <<"Ann", "Bob", "Cy", "Dee", "Eve", "Fay">>
\* how other students' lists spell the names: never in the case of the name
ListedAs == <<"ANN", "bob", "CY", "dee", "EVE", "fay">>
AbsentName == "Zed"                  \* a name no student of the roster has

\* String.prototype.toLowerCase on the strings of the model
toLowerCase(s) ==
    CASE s \in {"Ann", "ANN"} -> "ann"
      [] s \in {"Bob", "bob"} -> "bob"
      [] s \in {"Cy", "CY"}   -> "cy"
      [] s \in {"Dee", "dee"} -> "dee"
      [] s \in {"Eve", "EVE"} -> "eve"
      [] s \in {"Fay", "fay"} -> "fay"
      [] s = "Zed"            -> "zed"
      [] s = "An"             -> "an"
      [] s = "Anna"           -> "anna"
      [] s = "Bo"             -> "bo"
      [] s = "Needs ATTENTION" -> "needs attention"
      [] s = "Extra Support"  -> "extra support"
      [] OTHER                -> s

\* String.prototype.includes on the lower-cased notes of the model
includesText(s, word) ==
    CASE s = "needs attention" -> word = "attention"
      [] s = "extra support"   -> word = "support"
      [] OTHER                 -> FALSE

-----------------------------------------------------------------------------
(* Array helpers *)

Max(a, b) == IF a >= b THEN a ELSE b
Min(a, b) == IF a <= b THEN a ELSE b

\* Array.prototype.forEach / reduce, left to right.  The tests on "start"
\* and "before" make TLC evaluate the accumulator before it enters the loop
\* and the step, which keeps the evaluation stack shallow on long arrays.
forEach(seq, Step(_, _), acc) ==
    LET start == acc
        f[i \in 0..Len(seq)] ==
            IF i = 0 THEN start
            ELSE LET before == f[i - 1]
                 IN  IF before = before THEN Step(before, seq[i]) ELSE before
    IN  IF start = start THEN f[Len(seq)] ELSE start

\* Array.prototype.filter
filter(seq, Test(_)) == SelectSeq(seq, Test)

\* Array.prototype.includes
includes(seq, x) == \E i \in 1..Len(seq) : seq[i] = x

\* Array.prototype.slice(-k)
sliceLast(seq, k) == SubSeq(seq, Max(1, Len(seq) - k + 1), Len(seq))

\* Array.prototype.splice(start, 0, x); a negative start counts from the end
splice(seq, start, x) ==
    LET s == IF start < 0 THEN Max(Len(seq) + start, 0) ELSE Min(start, Len(seq))
    IN  SubSeq(seq, 1, s) \o <<x>> \o SubSeq(seq, s + 1, Len(seq))

\* Math.ceil(a / b) for integers a >= 0, b > 0
CeilDiv(a, b) == (a + b - 1) \div b

-----------------------------------------------------------------------------
(* Conflict predicate: seating-algorithms.ts 191-204 *)

\* the test of the first student's list only
hasAvoidConflict_OneWay(student1, student2) ==
    LET student1Avoids == {toLowerCase(student1.avoidPairing[i]) :
                               i \in 1..Len(student1.avoidPairing)}
    IN  toLowerCase(student2.name) \in student1Avoids

hasAvoidConflict(student1, student2) ==
    LET student1Avoids == {toLowerCase(student1.avoidPairing[i]) :
                               i \in 1..Len(student1.avoidPairing)}
        student2Avoids == {toLowerCase(student2.avoidPairing[i]) :
                               i \in 1..Len(student2.avoidPairing)}
    IN  \/ toLowerCase(student2.name) \in student1Avoids
        \/ toLowerCase(student1.name) \in student2Avoids

canPlaceStudent(student, recentlyPlaced) ==
    ~ \E i \in 1..Len(recentlyPlaced) : hasAvoidConflict(student, recentlyPlaced[i])

-----------------------------------------------------------------------------
(* Strategies: seating-algorithms.ts 59-270 *)

\* a round-robin that visits the buckets as beginners, advanced, intermediate
mixedRoundRobin_BeginnersFirst(beginners, intermediate, advanced) ==
    LET maxLength == Max(Len(beginners), Max(Len(intermediate), Len(advanced)))
        place(group, i, mixed) ==
            IF i <= Len(group) /\ canPlaceStudent(group[i], mixed)
            THEN Append(mixed, group[i]) ELSE mixed
    IN  forEach([k \in 1..maxLength |-> k],
                LAMBDA mixed, i :
                    place(intermediate, i,
                        place(advanced, i, place(beginners, i, mixed))),
                <<>>)

\* the round-robin of lines 66-73
mixedRoundRobin(beginners, intermediate, advanced) ==
    LET maxLength == Max(Len(beginners), Max(Len(intermediate), Len(advanced)))
        \* one "if (group[i] && canPlaceStudent(group[i], mixed)) push"
        place(group, i, mixed) ==
            IF i <= Len(group) /\ canPlaceStudent(group[i], mixed)
            THEN Append(mixed, group[i]) ELSE mixed
    IN  forEach([k \in 1..maxLength |-> k],
                LAMBDA mixed, i :
                    place(intermediate, i,
                        place(beginners, i, place(advanced, i, mixed))),
                <<>>)

\* a mixed-ability that forgets the students the round-robin skipped
generateMixedAbilityArrangement_NoRemaining(roster) ==
    mixedRoundRobin(filter(roster, LAMBDA s : s.skillLevel = "beginner"),
                    filter(roster, LAMBDA s : s.skillLevel = "intermediate"),
                    filter(roster, LAMBDA s : s.skillLevel = "advanced"))

generateMixedAbilityArrangement(roster) ==
    LET beginners    == filter(roster, LAMBDA s : s.skillLevel = "beginner")
        intermediate == filter(roster, LAMBDA s : s.skillLevel = "intermediate")
        advanced     == filter(roster, LAMBDA s : s.skillLevel = "advanced")
        allGroups == beginners \o intermediate \o advanced
    IN  forEach(allGroups,
                LAMBDA mixed, student :
                    IF ~includes(mixed, student) THEN Append(mixed, student)
                    ELSE mixed,
                mixedRoundRobin(beginners, intermediate, advanced))

\* the buckets concatenated in the opposite order
generateSkillClusteringArrangement_AdvancedFirst(roster) ==
    LET beginners    == filter(roster, LAMBDA s : s.skillLevel = "beginner")
        intermediate == filter(roster, LAMBDA s : s.skillLevel = "intermediate")
        advanced     == filter(roster, LAMBDA s : s.skillLevel = "advanced")
    IN  advanced \o intermediate \o beginners

generateSkillClusteringArrangement(roster) ==
    LET beginners    == filter(roster, LAMBDA s : s.skillLevel = "beginner")
        intermediate == filter(roster, LAMBDA s : s.skillLevel = "intermediate")
        advanced     == filter(roster, LAMBDA s : s.skillLevel = "advanced")
    IN  beginners \o intermediate \o advanced

\* the "add remaining students" pass of language-support (126-137)
languageRemaining(roster, st) ==
    forEach(roster,
            LAMBDA acc, student :
                IF student.id \in acc.used THEN acc
                ELSE IF canPlaceStudent(student, sliceLast(acc.arranged, 2))
                THEN [acc EXCEPT !.arranged = Append(@, student)]
                ELSE [acc EXCEPT !.arranged =
                         splice(@, Max(0, Len(acc.arranged) - 2), student)],
            st)

generateLanguageSupportArrangement(roster) ==
    LET \* the (language, student) pushes of lines 100-109, in order
        entries == forEach(roster,
                       LAMBDA acc, student :
                           acc \o [k \in 1..(1 + Len(student.secondaryLanguages)) |->
                                     [language |-> (<<student.primaryLanguage>>
                                                    \o student.secondaryLanguages)[k],
                                      student |-> student]],
                       <<>>)
        \* keys of the Map in insertion order
        languages == forEach(entries,
                         LAMBDA acc, e :
                             IF includes(acc, e.language) THEN acc
                             ELSE Append(acc, e.language),
                         <<>>)
        group(language) == filter(entries, LAMBDA e : e.language = language)
        grouped ==
            forEach(languages,
                LAMBDA st, language :
                    IF Len(group(language)) > 1
                    THEN forEach(group(language),
                             LAMBDA acc, e :
                                 IF /\ e.student.id \notin acc.used
                                    /\ canPlaceStudent(e.student,
                                                       sliceLast(acc.arranged, 2))
                                 THEN [arranged |-> Append(acc.arranged, e.student),
                                       used |-> acc.used \cup {e.student.id}]
                                 ELSE acc,
                             st)
                    ELSE st,
                [arranged |-> <<>>, used |-> {}])
    IN  languageRemaining(roster, grouped).arranged

\* the first pass of collaborative-pairs (143-165)
collaborativeFirstPass(roster) ==
    LET \* students.find(s => same name, ignoring case, && !used.has(s.id))
        find(partnerName, used) ==
            LET hits == {i \in 1..Len(roster) :
                            /\ toLowerCase(roster[i].name) = toLowerCase(partnerName)
                            /\ roster[i].id \notin used}
            IN  IF hits = {} THEN <<>>
                ELSE <<roster[CHOOSE i \in hits : \A j \in hits : i <= j]>>
    IN  forEach(roster,
            LAMBDA st, student :
                IF student.id \in st.used THEN st
                ELSE IF Len(student.worksWellWith) > 0
                THEN forEach(student.worksWellWith,
                         LAMBDA acc, partnerName :
                             LET partner == find(partnerName, acc.used)
                             IN  IF /\ partner # <<>>
                                    /\ ~hasAvoidConflict(student, partner[1])
                                 THEN [arranged |-> Append(acc.arranged, partner[1]),
                                       used |-> acc.used \cup {partner[1].id}]
                                 ELSE acc,
                         [arranged |-> Append(st.arranged, student),
                          used |-> st.used \cup {student.id}])
                ELSE st,
            [arranged |-> <<>>, used |-> {}])

generateCollaborativeArrangement(roster) ==
    forEach(roster,
        LAMBDA acc, student :
            IF student.id \in acc.used THEN acc
            ELSE IF canPlaceStudent(student, sliceLast(acc.arranged, 2))
            THEN [acc EXCEPT !.arranged = Append(@, student)]
            ELSE [acc EXCEPT !.arranged = splice(@, -1, student)],
        collaborativeFirstPass(roster)).arranged

\* a shuffle that never swaps an element with itself (j < i)
generateRandomArrangement_NoSelfSwap(roster, draws) ==
    LET n == Len(roster)
        swap(seq, a, b) == [seq EXCEPT ![a] = seq[b], ![b] = seq[a]]
        loop[k \in 0..Max(n - 1, 0)] ==
            IF k = 0 THEN roster
            ELSE swap(loop[k - 1], (n - k) + 1, Min(draws[n - k], n - k - 1) + 1)
    IN  loop[Max(n - 1, 0)]

\* draws[i] is Math.floor(Math.random() * (i + 1)) of the iteration that
\* swaps index i (0-based), i = length-1 down to 1
generateRandomArrangement(roster, draws) ==
    LET n == Len(roster)
        swap(seq, a, b) == [seq EXCEPT ![a] = seq[b], ![b] = seq[a]]
        loop[k \in 0..Max(n - 1, 0)] ==
            \* k iterations done: i = n-1, ..., n-k
            IF k = 0 THEN roster
            ELSE swap(loop[k - 1], (n - k) + 1, draws[n - k] + 1)
    IN  loop[Max(n - 1, 0)]

\* the needs-attention test without the notes
generateAttentionZoneArrangement_SkillOnly(roster, total) ==
    LET needsAttention ==
            filter(roster, LAMBDA s :
                s.skillLevel = "beginner")
        others    == filter(roster, LAMBDA s : ~includes(needsAttention, s))
        advanced  == filter(others, LAMBDA s : s.skillLevel = "advanced")
        remaining == filter(others, LAMBDA s : s.skillLevel # "advanced")
    IN  needsAttention \o remaining \o advanced

generateAttentionZoneArrangement(roster, total) ==
    LET needsAttention ==
            filter(roster, LAMBDA s :
                \/ s.skillLevel = "beginner"
                \/ (s.notes # "" /\ includesText(toLowerCase(s.notes), "attention"))
                \/ (s.notes # "" /\ includesText(toLowerCase(s.notes), "support")))
        others    == filter(roster, LAMBDA s : ~includes(needsAttention, s))
        advanced  == filter(others, LAMBDA s : s.skillLevel = "advanced")
        remaining == filter(others, LAMBDA s : s.skillLevel # "advanced")
    IN  needsAttention \o remaining \o advanced

\* a behavior-management that spaces from the seat count, not from the tail
generateBehaviorManagementArrangement_BySeats(roster, total) ==
    LET studentsWithConstraints ==
            filter(roster, LAMBDA s : Len(s.avoidPairing) > 0)
        studentsWithoutConstraints ==
            filter(roster, LAMBDA s : Len(s.avoidPairing) = 0)
        firstPass ==
            forEach(studentsWithConstraints,
                LAMBDA st, student :
                    IF /\ student.id \notin st.used
                       /\ canPlaceStudent(student, sliceLast(st.arranged, 3))
                    THEN LET availableBuffers ==
                                 filter(studentsWithoutConstraints,
                                        LAMBDA s : /\ s.id \notin (st.used \cup {student.id})
                                                   /\ canPlaceStudent(s, <<student>>))
                         IN  IF Len(availableBuffers) > 0
                             THEN [arranged |-> st.arranged \o
                                                <<student, availableBuffers[1]>>,
                                   used |-> st.used \cup
                                            {student.id, availableBuffers[1].id}]
                             ELSE [arranged |-> Append(st.arranged, student),
                                   used |-> st.used \cup {student.id}]
                    ELSE st,
                [arranged |-> <<>>, used |-> {}])
        secondPass ==
            forEach(studentsWithConstraints,
                LAMBDA st, student :
                    IF student.id \notin st.used
                    THEN [arranged |-> splice(st.arranged,
                                              Max(0, total - 3), student),
                          used |-> st.used \cup {student.id}]
                    ELSE st,
                firstPass)
    IN  forEach(roster,
            LAMBDA acc, student :
                IF student.id \notin acc.used
                THEN [acc EXCEPT !.arranged = Append(@, student)]
                ELSE acc,
            secondPass).arranged

generateBehaviorManagementArrangement(roster, total) ==
    LET studentsWithConstraints ==
            filter(roster, LAMBDA s : Len(s.avoidPairing) > 0)
        studentsWithoutConstraints ==
            filter(roster, LAMBDA s : Len(s.avoidPairing) = 0)
        firstPass ==
            forEach(studentsWithConstraints,
                LAMBDA st, student :
                    IF /\ student.id \notin st.used
                       /\ canPlaceStudent(student, sliceLast(st.arranged, 3))
                    THEN LET availableBuffers ==
                                 filter(studentsWithoutConstraints,
                                        LAMBDA s : /\ s.id \notin (st.used \cup {student.id})
                                                   /\ canPlaceStudent(s, <<student>>))
                         IN  IF Len(availableBuffers) > 0
                             THEN [arranged |-> st.arranged \o
                                                <<student, availableBuffers[1]>>,
                                   used |-> st.used \cup
                                            {student.id, availableBuffers[1].id}]
                             ELSE [arranged |-> Append(st.arranged, student),
                                   used |-> st.used \cup {student.id}]
                    ELSE st,
                [arranged |-> <<>>, used |-> {}])
        secondPass ==
            forEach(studentsWithConstraints,
                LAMBDA st, student :
                    IF student.id \notin st.used
                    THEN [arranged |-> splice(st.arranged,
                                              Max(0, Len(st.arranged) - 3), student),
                          used |-> st.used \cup {student.id}]
                    ELSE st,
                firstPass)
    IN  forEach(roster,
            LAMBDA acc, student :
                IF student.id \notin acc.used
                THEN [acc EXCEPT !.arranged = Append(@, student)]
                ELSE acc,
            secondPass).arranged

-----------------------------------------------------------------------------
(* Orchestrator: seating-algorithms.ts 8-57 *)

\* the switch with a default that keeps the roster order
runStrategy_RosterOrder(roster, strategyName, total, draws) ==
    CASE strategyName = "mixed-ability"       -> generateMixedAbilityArrangement(roster)
      [] strategyName = "skill-clustering"    -> generateSkillClusteringArrangement(roster)
      [] strategyName = "language-support"    -> generateLanguageSupportArrangement(roster)
      [] strategyName = "collaborative-pairs" -> generateCollaborativeArrangement(roster)
      [] strategyName = "attention-zone"      -> generateAttentionZoneArrangement(roster, total)
      [] strategyName = "behavior-management" -> generateBehaviorManagementArrangement(roster, total)
      [] strategyName = "random"              -> generateRandomArrangement(roster, draws)
      [] OTHER                                -> roster

\* the switch of lines 24-47
runStrategy(roster, strategyName, total, draws) ==
    CASE strategyName = "mixed-ability"       -> generateMixedAbilityArrangement(roster)
      [] strategyName = "skill-clustering"    -> generateSkillClusteringArrangement(roster)
      [] strategyName = "language-support"    -> generateLanguageSupportArrangement(roster)
      [] strategyName = "collaborative-pairs" -> generateCollaborativeArrangement(roster)
      [] strategyName = "attention-zone"      -> generateAttentionZoneArrangement(roster, total)
      [] strategyName = "behavior-management" -> generateBehaviorManagementArrangement(roster, total)
      [] OTHER                                -> generateRandomArrangement(roster, draws)

\* an initial array that is one seat short
emptySeats_OneShort(total) ==
    [i \in 1..(total - 1) |-> [position |-> i - 1, studentId |-> Null]]

\* Array.from({length: totalSeats}, (_, i) => ({position: i, studentId: null}))
emptySeats(total) == [i \in 1..total |-> [position |-> i - 1, studentId |-> Null]]

\* lines 50-54: arrangement.forEach((student, index) => ...)
assignSeats(initial, ordering, total) ==
    [i \in 1..Len(initial) |->
        IF i <= Len(ordering) /\ i - 1 < total
        THEN [initial[i] EXCEPT !.studentId = ordering[i].id]
        ELSE initial[i]]

\* returns the chart, and with it the local "arrangement" of line 22
generateSeatingChart(roster, strategyName, total, draws) ==
    IF Len(roster) = 0
    THEN [seats |-> emptySeats(total), arrangement |-> <<>>]
    ELSE LET ordering == runStrategy(roster, strategyName, total, draws)
         IN  [seats |-> assignSeats(emptySeats(total), ordering, total),
              arrangement |-> ordering]

-----------------------------------------------------------------------------
(* Rosters: Student records as shared/schema.ts 6-15 types them *)

mkStudent(i, skill, primary, secondary, partners, avoids, note) ==
    [id |-> IdOf[i], name |-> NameOf[i],
     primaryLanguage |-> primary, secondaryLanguages |-> secondary,
     skillLevel |-> skill, worksWellWith |-> partners,
     avoidPairing |-> avoids, notes |-> note]

\* the subsets of S with at most k elements
RECURSIVE UpTo(_, _)
UpTo(S, k) ==
    IF k = 0 THEN {{}}
    ELSE LET smaller == UpTo(S, k - 1)
         IN  smaller \cup {T \cup {x} : T \in smaller, x \in S}

\* who names whom: pairs <<i, j>>, student i lists student j; j = 0 is a
\* name that nobody of the roster has
NamePairs(n, lowest) == {p \in (1..n) \X (lowest..n) : p[1] # p[2]}

\* one student lists up to k of the names lowest..n
OneLister(n, lowest, k) ==
    {({i} \X S) \cap NamePairs(n, lowest) :
        i \in 1..n, S \in UpTo(lowest..n, k)}

\* one student and up to k others list each other
Star(n, k) ==
    {(({i} \X S) \cup (S \X {i})) \cap NamePairs(n, 1) :
        i \in 1..n, S \in UpTo(1..n, k)}

\* the avoid relations: nobody lists anybody, one student lists one name, or
\* one student is in mutual conflict with up to MaxConflicts others
AvoidRelations(n, lowest) ==
    {{}} \cup OneLister(n, lowest, 1) \cup Star(n, MaxConflicts)

\* the works-well-with relations: one student lists up to MaxPartners names,
\* or two students list each other
PartnerRelations(n) == {{}} \cup OneLister(n, 0, MaxPartners) \cup Star(n, 1)

\* the name list of student i under the relation R, in roster order
nameList(i, R, n) ==
    forEach([k \in 1..(n + 1) |-> k - 1],
            LAMBDA acc, j : IF <<i, j>> \in R
                            THEN Append(acc, IF j = 0 THEN AbsentName ELSE ListedAs[j])
                            ELSE acc,
            <<>>)

LanguageProfiles == {<<"English", <<>>>>, <<"Spanish", <<"English">>>>,
                     <<"Hmong", <<"Hmong">>>>}
NoteTexts == {"", "Needs ATTENTION", "Extra Support"}

Sizes == 0..MaxStudents

\* rosters that vary skill level and avoid-pairing
SkillAvoidRosters ==
    UNION {{[i \in 1..n |-> mkStudent(i, skill[i], "English", <<>>, <<>>,
                                      nameList(i, A, n), "")] :
               skill \in [1..n -> SkillLevels],
               A \in AvoidRelations(n, 1)} : n \in Sizes}

\* rosters in which a student has a skill level that is none of the three
UnlistedLevelRosters ==
    UNION {{[i \in 1..n |-> mkStudent(i, skill[i], "English", <<>>, <<>>, <<>>, "")] :
               skill \in {f \in [1..n -> SkillLevels \cup {UnknownSkillLevel}] :
                              \E i \in 1..n : f[i] = UnknownSkillLevel}} : n \in Sizes}

\* rosters that vary avoid-pairing only (with names outside the roster)
AvoidRosters ==
    UNION {{[i \in 1..n |-> mkStudent(i, "intermediate", "English", <<>>, <<>>,
                                      nameList(i, A, n), "")] :
               A \in AvoidRelations(n, 0)} : n \in Sizes}

\* rosters that vary the languages and avoid-pairing
LanguageRosters ==
    UNION {{[i \in 1..n |-> mkStudent(i, "intermediate", lang[i][1], lang[i][2],
                                      <<>>, nameList(i, A, n), "")] :
               lang \in [1..n -> LanguageProfiles],
               A \in AvoidRelations(n, 1)} : n \in Sizes}

\* rosters that vary works-well-with and avoid-pairing
PartnerRosters ==
    UNION {{[i \in 1..n |-> mkStudent(i, "intermediate", "English", <<>>,
                                      nameList(i, W, n), nameList(i, A, n), "")] :
               W \in PartnerRelations(n),
               A \in AvoidRelations(n, 1)} : n \in Sizes}

\* rosters that vary skill level and notes
NotesRosters ==
    UNION {{[i \in 1..n |-> mkStudent(i, skill[i], "English", <<>>, <<>>, <<>>,
                                      note[i])] :
               skill \in [1..n -> SkillLevels],
               note \in [1..n -> NoteTexts]} : n \in Sizes}

\* rosters that vary nothing but the size
PlainRosters ==
    {[i \in 1..n |-> mkStudent(i, "intermediate", "English", <<>>, <<>>, <<>>, "")] :
        n \in Sizes}

\* the rosters a strategy is run on: they vary the fields the strategy reads
RostersFor(strategyName) ==
    CASE strategyName = "mixed-ability"       -> SkillAvoidRosters \cup UnlistedLevelRosters
      [] strategyName = "skill-clustering"    -> SkillAvoidRosters \cup UnlistedLevelRosters
      [] strategyName = "language-support"    -> LanguageRosters
      [] strategyName = "collaborative-pairs" -> PartnerRosters
      [] strategyName = "attention-zone"      -> NotesRosters
      [] strategyName = "behavior-management" -> AvoidRosters
      [] OTHER                                -> PlainRosters

\* the values Math.floor(Math.random() * (i + 1)) can take, i = 1..n-1
AllDraws(n) == {d \in [1..(n - 1) -> 0..(n - 1)] : \A i \in 1..(n - 1) : d[i] <= i}

\* the random source during one call: every outcome for the strategies that
\* shuffle, the lowest draws for the others in the first call and the lowest
\* or the highest draws in the calls after it
DrawsFor(strategyName, n, k) ==
    IF strategyName \in StrategyNames \ {"random"}
    THEN IF k = 0 THEN {[i \in 1..(n - 1) |-> 0]}
         ELSE {[i \in 1..(n - 1) |-> 0], [i \in 1..(n - 1) |-> i]}
    ELSE AllDraws(n)

\* the seat counts of a call: any in the first call, none or all in later ones
SeatChoices(k) == IF k = 0 THEN 0..MaxSeats ELSE {0, MaxSeats}

-----------------------------------------------------------------------------
(* Specification of generateSeatingChart *)

InitChart ==
    /\ strategy \in StrategyNames \cup {UnknownStrategy}
    /\ students \in RostersFor(strategy)
    /\ layout = None
    /\ totalSeats = 0
    /\ seats = <<>>
    /\ arrangement = <<>>
    /\ calls = 0
    /\ studentCount = Len(students)
    /\ seatCount = None
    /\ positions = None
    /\ validation = None
    /\ assessment = None
    /\ conflictResult = None
    /\ draggedStudent = Null
    /\ pc = "init"

\* one call generateSeatingChart(students, strategy, total)
Generate(total, draws) ==
    /\ calls < MaxCalls
    /\ totalSeats' = total
    /\ LET chart == generateSeatingChart(students, strategy, total, draws)
       IN  seats' = chart.seats /\ arrangement' = chart.arrangement
    /\ calls' = calls + 1
    /\ pc' = "generated"
    /\ UNCHANGED <<draggedStudent, conflictResult, students, strategy, layout, studentCount, seatCount,
                   positions, validation, assessment>>

NextChart ==
    \E total \in SeatChoices(calls) :
        \E draws \in DrawsFor(strategy, Len(students), calls) : Generate(total, draws)

SpecChart == InitChart /\ [][NextChart]_vars

-----------------------------------------------------------------------------
(* Claims on generateSeatingChart *)

studentIds(roster) == {roster[i].id : i \in 1..Len(roster)}

\* every student of the roster exactly once
IsPermutationOf(ordering, roster) ==
    /\ Len(ordering) = Len(roster)
    /\ \A i \in 1..Len(roster) : \E j \in 1..Len(ordering) : ordering[j] = roster[i]
    /\ \A i, j \in 1..Len(ordering) : ordering[i] = ordering[j] => i = j

\* C1: for a non-empty roster with distinct ids and any strategy, the chart
\* has exactly totalSeats entries, entry i has position i, no student id is in
\* two entries, and the non-null entries are the first min(rosterSize,
\* totalSeats) elements of an ordering holding every student exactly once.
C1_ChartTotality ==
    (pc = "generated" /\ Len(students) > 0 /\ strategy \in StrategyNames) =>
        /\ Len(seats) = totalSeats
        /\ \A i \in 1..Len(seats) : seats[i].position = i - 1
        /\ \A i, j \in 1..Len(seats) :
               (seats[i].studentId # Null /\ seats[i].studentId = seats[j].studentId)
                   => i = j
        /\ IsPermutationOf(arrangement, students)
        /\ \A i \in 1..Len(seats) :
               seats[i].studentId =
                   IF i <= Min(Len(students), totalSeats)
                   THEN arrangement[i].id ELSE Null
        /\ Cardinality({i \in 1..Len(seats) : seats[i].studentId # Null})
               = Min(Len(students), totalSeats)

\* a chart that truncates a roster in which a conflict deferred a student
C1_Witness ==
    /\ pc = "generated"
    /\ strategy = "mixed-ability"
    /\ Len(students) = MaxStudents
    /\ totalSeats = MaxStudents - 1
    /\ arrangement # students
    /\ \E i \in 1..Len(students) : Len(students[i].avoidPairing) > 0
    /\ seats[totalSeats].studentId # Null

\* C2: for an empty roster the chart has totalSeats seats, positions
\* 0..totalSeats-1, every studentId null, whatever the strategy name.
C2_EmptyRoster ==
    (pc = "generated" /\ Len(students) = 0) =>
        /\ Len(seats) = totalSeats
        /\ \A i \in 1..Len(seats) :
               seats[i].position = i - 1 /\ seats[i].studentId = Null

C2_Witness ==
    /\ pc = "generated"
    /\ Len(students) = 0
    /\ strategy = "mixed-ability"
    /\ totalSeats = MaxSeats
    /\ Len(seats) = MaxSeats

\* C3: for every strategy except random, a further call on the same roster
\* yields the same ordering as the call before it, whatever totalSeats and
\* the random source are in the two calls.
C3_Deterministic ==
    [][(calls >= 1 /\ calls' = calls + 1 /\ strategy \in StrategyNames \ {"random"})
          => arrangement' = arrangement]_vars

\* a second call of a constraint-driven strategy that reordered the roster
C3_Witness ==
    /\ calls = 2
    /\ strategy = "behavior-management"
    /\ Len(arrangement) = MaxStudents
    /\ arrangement # students

-----------------------------------------------------------------------------
(* Seat count resolver: pages/seating-chart.tsx 77-96 *)

\* JavaScript values met by the resolver
Number(n)  == [type |-> "number", value |-> n]
Undefined  == [type |-> "undefined", value |-> 0]
Function   == [type |-> "function", value |-> 0]

\* maxSeats[layoutType]: an own property of the literal, a property inherited
\* from Object.prototype, or undefined
maxSeats(layoutType) ==
    CASE layoutType = "traditional-rows" -> Number(30)
      [] layoutType = "stadium"          -> Number(28)
      [] layoutType = "horseshoe"        -> Number(20)
      [] layoutType = "double-horseshoe" -> Number(32)
      [] layoutType = "circle"           -> Number(16)
      [] layoutType = "pairs"            -> Number(20)
      [] layoutType \in ObjectPrototypeKeys -> Function
      [] OTHER                           -> Undefined

\* a || b
orElse(a, b) ==
    IF a.type = "function" \/ (a.type = "number" /\ a.value # 0) THEN a ELSE b

\* Math.min(count, v) for a number count: NaN unless v is a number
mathMin(count, v) == IF v.type = "number" THEN Min(count, v.value) ELSE NaN

\* a resolver that rounds the groups down
getSeatCount_Floor(layoutType, count) ==
    IF layoutType = "groups" THEN (count \div 4) * 4
    ELSE mathMin(count, orElse(maxSeats(layoutType), Number(24)))

getSeatCount(layoutType, count) ==
    IF layoutType = "groups"
    THEN LET groupsNeeded == CeilDiv(count, 4) IN groupsNeeded * 4
    ELSE LET maxForLayout == orElse(maxSeats(layoutType), Number(24))
         IN  mathMin(count, maxForLayout)

-----------------------------------------------------------------------------
(* Geometry generator: the grid component's generateLayoutPositions.       *)
(* x, y and rotation are kept for the layouts that compute them with       *)
(* integers; the arcs keep ring and index along the arc instead.           *)

\* 0, 1, ..., n-1: the values of a counting for-loop
range(n) == [i \in 1..n |-> i - 1]

rowsPositions(count) ==
    LET seatsPerRow == 5
        rowsNeeded == CeilDiv(count, seatsPerRow)
        rowWidth == seatsPerRow * 120
        startX == (900 - rowWidth) \div 2
    IN  forEach(range(rowsNeeded),
            LAMBDA acc, row :
                IF Len(acc) < count
                THEN forEach(range(seatsPerRow),
                         LAMBDA a, col :
                             IF Len(a) < count
                             THEN Append(a, [position |-> Len(a),
                                             x |-> startX + col * 120,
                                             y |-> row * 100 + 140])
                             ELSE a,
                         acc)
                ELSE acc,
            <<>>)

stadiumPositions(count) ==
    LET rowSeats == <<5, 6, 7, 6>>
    IN  forEach(range(4),
            LAMBDA acc, row :
                IF Len(acc) < count
                THEN LET seatsInThisRow == Min(rowSeats[row + 1], count - Len(acc))
                         startX == (900 - seatsInThisRow * 120) \div 2
                         angleOffset == row * 20
                     IN  forEach(range(seatsInThisRow),
                             LAMBDA a, col :
                                 \* twice the distance from the centre column
                                 LET twice == IF 2 * col >= seatsInThisRow - 1
                                              THEN 2 * col - (seatsInThisRow - 1)
                                              ELSE (seatsInThisRow - 1) - 2 * col
                                 IN  Append(a,
                                         [position |-> Len(a),
                                          x |-> startX + col * 120 +
                                                (IF row > 0
                                                 THEN (twice * angleOffset) \div 2
                                                 ELSE 0),
                                          y |-> row * 120 + 140,
                                          rotation |->
                                              IF row > 0
                                              THEN (IF 2 * col < seatsInThisRow - 1 THEN -5
                                                    ELSE IF 2 * col > seatsInThisRow - 1
                                                    THEN 5 ELSE 0)
                                              ELSE 0]),
                             acc)
                ELSE acc,
            <<>>)

\* horseshoe and circle: one seat per i = 0..count-1 along one arc
arcPositions(count) ==
    forEach(range(count),
        LAMBDA acc, i : Append(acc, [position |-> i, ring |-> "single", index |-> i]),
        <<>>)

doubleHorseshoePositions(count) ==
    LET innerSeats == Min(CeilDiv(count, 2), 16)
        outerSeats == Min(count - innerSeats, 16)
        inner == forEach(range(innerSeats),
                     LAMBDA acc, i :
                         IF Len(acc) < count
                         THEN Append(acc, [position |-> Len(acc),
                                           ring |-> "inner", index |-> i])
                         ELSE acc,
                     <<>>)
    IN  forEach(range(outerSeats),
            LAMBDA acc, i :
                IF Len(acc) < count
                THEN Append(acc, [position |-> Len(acc),
                                  ring |-> "outer", index |-> i])
                ELSE acc,
            inner)

groupsPositions(count) ==
    LET groupsNeeded == CeilDiv(count, 4)
        groupPositions == <<[x |-> 150, y |-> 160], [x |-> 400, y |-> 160],
                            [x |-> 650, y |-> 160], [x |-> 150, y |-> 360],
                            [x |-> 400, y |-> 360], [x |-> 650, y |-> 360]>>
        offsets == <<[x |-> -42, y |-> -42], [x |-> 42, y |-> -42],
                     [x |-> -42, y |-> 42], [x |-> 42, y |-> 42]>>
    IN  forEach(range(Min(groupsNeeded, Len(groupPositions))),
            LAMBDA acc, g :
                forEach(offsets,
                    LAMBDA a, seatOffset :
                        Append(a, [position |-> Len(a),
                                   x |-> groupPositions[g + 1].x + seatOffset.x,
                                   y |-> groupPositions[g + 1].y + seatOffset.y,
                                   rotation |-> 0]),
                    acc),
            <<>>)

pairsPositions(count) ==
    LET pairsNeeded == CeilDiv(count, 2)
        columns == 3
        rowsNeeded == CeilDiv(pairsNeeded, columns)
        totalWidth == columns * 200
        startX == (900 - totalWidth) \div 2
    IN  forEach(range(rowsNeeded),
            LAMBDA acc, row :
                forEach(range(columns),
                    LAMBDA b, pairCol :
                        forEach(range(2),
                            LAMBDA a, seat :
                                IF Len(a) < count
                                THEN Append(a, [position |-> Len(a),
                                                x |-> startX + pairCol * 200 + seat * 80,
                                                y |-> row * 120 + 140,
                                                rotation |-> 0])
                                ELSE a,
                            b),
                    acc),
            <<>>)

generateLayoutPositions(layoutType, count) ==
    CASE layoutType = "traditional-rows" -> rowsPositions(count)
      [] layoutType = "stadium"          -> stadiumPositions(count)
      [] layoutType = "horseshoe"        -> arcPositions(count)
      [] layoutType = "double-horseshoe" -> doubleHorseshoePositions(count)
      [] layoutType = "circle"           -> arcPositions(count)
      [] layoutType = "groups"           -> groupsPositions(count)
      [] layoutType = "pairs"            -> pairsPositions(count)
      [] OTHER                           -> rowsPositions(count)

-----------------------------------------------------------------------------
(* Specification of the seat-count resolver and the geometry generator *)

InitLayout ==
    /\ layout \in LayoutKinds \cup UnknownLayouts
    /\ studentCount \in 0..MaxStudentCount
    /\ students = <<>>
    /\ strategy = None
    /\ totalSeats = 0
    /\ seats = <<>>
    /\ arrangement = <<>>
    /\ calls = 0
    /\ seatCount = None
    /\ positions = None
    /\ validation = None
    /\ assessment = None
    /\ conflictResult = None
    /\ draggedStudent = Null
    /\ pc = "init"

\* the page shows getSeatCount(layout, students.length) (seating-chart.tsx 474)
ResolveSeatCount ==
    /\ pc = "init"
    /\ seatCount' = getSeatCount(layout, studentCount)
    /\ pc' = "resolved"
    /\ UNCHANGED <<draggedStudent, conflictResult, students, strategy, layout, totalSeats, seats, arrangement,
                   calls, studentCount, positions, validation, assessment>>

\* generateLayoutPositions(layout, count) on a seat count of the caller's
GenerateLayout(count) ==
    /\ pc = "init"
    /\ seatCount' = count
    /\ positions' = generateLayoutPositions(layout, count)
    /\ pc' = "laid out"
    /\ UNCHANGED <<draggedStudent, conflictResult, students, strategy, layout, totalSeats, seats, arrangement,
                   calls, studentCount, validation, assessment>>

\* the grid renders: seat count from the student count, then the geometry
RenderGrid ==
    /\ pc = "init"
    /\ LET total == IF studentCount > 0 THEN getSeatCount(layout, studentCount) ELSE 0
       IN  /\ seatCount' = total
           /\ positions' = IF studentCount > 0 /\ total # NaN
                           THEN generateLayoutPositions(layout, total)
                           ELSE <<>>
    /\ pc' = "rendered"
    /\ UNCHANGED <<draggedStudent, conflictResult, students, strategy, layout, totalSeats, seats, arrangement,
                   calls, studentCount, validation, assessment>>

NextLayout ==
    \/ ResolveSeatCount
    \/ \E count \in 0..MaxSeatCount : GenerateLayout(count)
    \/ RenderGrid

SpecLayout == InitLayout /\ [][NextLayout]_vars

-----------------------------------------------------------------------------
(* Claims on the seat count and the geometry *)

\* C4: for the groups layout the resolved seat count is a multiple of 4,
\* is >= n and is < n + 4 (that is, ceil(n/4)*4).
C4_GroupsSeatCount ==
    (pc = "resolved" /\ layout = "groups") =>
        /\ seatCount % 4 = 0
        /\ seatCount >= studentCount
        /\ seatCount < studentCount + 4

C4_Witness ==
    /\ pc = "resolved"
    /\ layout = "groups"
    /\ studentCount = 10
    /\ seatCount = 12

Ceiling(kind) ==
    CASE kind = "traditional-rows" -> 30
      [] kind = "stadium"          -> 28
      [] kind = "horseshoe"        -> 20
      [] kind = "double-horseshoe" -> 32
      [] kind = "circle"           -> 16
      [] kind = "pairs"            -> 20
      [] OTHER                     -> 24

\* C5: for every layout kind other than groups the resolved seat count is
\* min(n, ceiling), the ceiling of an unrecognized kind being 24; n = 0
\* resolves to 0 seats for every kind.
C5_CappedSeatCount ==
    (pc = "resolved") =>
        /\ layout # "groups" => seatCount = Min(studentCount, Ceiling(layout))
        /\ studentCount = 0 => seatCount = 0

\* C6: for each of the seven layout kinds and every seatCount in 0..40 the
\* generator returns exactly seatCount positions with indices 0..seatCount-1.
C6_GeometryTotality ==
    (pc = "laid out" /\ layout \in LayoutKinds /\ seatCount <= 40) =>
        /\ Len(positions) = seatCount
        /\ \A i \in 1..Len(positions) : positions[i].position = i - 1

\* C7: the seat count resolved for a groups chart never exceeds 24 (6
\* clusters), so every seat of the chart has a cluster position.
C7_GroupsWithinClusters ==
    (pc = "rendered" /\ layout = "groups") =>
        /\ seatCount <= 24
        /\ \A p \in 0..(seatCount - 1) :
               \E i \in 1..Len(positions) : positions[i].position = p

-----------------------------------------------------------------------------
(* Validator: validateSeatingArrangement and getAdjacentPositions *)

\* Math.ceil(Math.sqrt(n))
ceilSqrt(n) == CHOOSE c \in 0..n : c * c >= n /\ (c = 0 \/ (c - 1) * (c - 1) < n)

\* new Map(students.map(s => [s.id, s])): a later student replaces an earlier
\* one of the same id
studentMapOf(roster) ==
    [id \in studentIds(roster) |->
        roster[CHOOSE i \in 1..Len(roster) :
                   /\ roster[i].id = id
                   /\ \A j \in (i + 1)..Len(roster) : roster[j].id # id]]

\* getAdjacentPositions(position, totalSeats, layoutType); layoutType is None
\* when the caller leaves it out
getAdjacentPositions(position, total, layoutType) ==
    LET grid(cols) ==
            LET row == position \div cols
                col == position % cols
            IN  (IF col > 0 THEN <<position - 1>> ELSE <<>>)
                \o (IF col < cols - 1 /\ position + 1 < total
                    THEN <<position + 1>> ELSE <<>>)
                \o (IF row > 0 THEN <<position - cols>> ELSE <<>>)
                \o (IF position + cols < total THEN <<position + cols>> ELSE <<>>)
        horseshoe ==
            LET cols == 8
                row == position \div cols
                col == position % cols
            IN  (IF col > 0 THEN <<position - 1>> ELSE <<>>)
                \o (IF col < cols - 1 /\ position + 1 < total
                    THEN <<position + 1>> ELSE <<>>)
                \o (IF row = 0 /\ col < 3 /\ position + (6 - 2 * col) < total
                    THEN <<position + (6 - 2 * col)>> ELSE <<>>)
        adjacent ==
            IF layoutType = "traditional-rows" THEN grid(6)
            ELSE IF layoutType = "horseshoe" THEN horseshoe
            ELSE grid(ceilSqrt(total))
    IN  filter(adjacent, LAMBDA pos : pos >= 0 /\ pos < total)

\* student.avoidPairing.some(name => name.toLowerCase() ===
\*                                   adjacentStudent.name.toLowerCase())
listsByName(student, adjacentStudent) ==
    \E k \in 1..Len(student.avoidPairing) :
        toLowerCase(student.avoidPairing[k]) = toLowerCase(adjacentStudent.name)

\* the violations of one seat: `${student.name} should not sit next to
\* ${adjacentStudent.name}` is the pair <<student.name, adjacentStudent.name>>
seatViolations(chartSeats, studentMap, layoutType, violations, index) ==
    LET seat == chartSeats[index + 1]
    IN  IF seat.studentId = Null THEN violations
        ELSE IF seat.studentId \notin DOMAIN studentMap THEN violations
        ELSE
          LET student == studentMap[seat.studentId]
              adjacentPositions ==
                  getAdjacentPositions(index, Len(chartSeats), layoutType)
          IN  forEach(adjacentPositions,
                      LAMBDA acc, adjPos :
                          LET adjacentSeat == chartSeats[adjPos + 1]
                          IN  IF adjacentSeat.studentId = Null THEN acc
                              ELSE IF adjacentSeat.studentId \notin DOMAIN studentMap
                              THEN acc
                              ELSE LET adjacentStudent ==
                                           studentMap[adjacentSeat.studentId]
                                   IN  IF listsByName(student, adjacentStudent)
                                       THEN Append(acc, <<student.name,
                                                          adjacentStudent.name>>)
                                       ELSE acc,
                      violations)

\* the loop stopping one seat short of the last
validateSeatingArrangement_SkipLast(chartSeats, roster, layoutType) ==
    LET studentMap == studentMapOf(roster)
        violations ==
            forEach(range(Max(0, Len(chartSeats) - 1)),
                    LAMBDA acc, index :
                        seatViolations(chartSeats, studentMap, layoutType, acc, index),
                    <<>>)
    IN  [isValid |-> Len(violations) = 0, violations |-> violations]

validateSeatingArrangement(chartSeats, roster, layoutType) ==
    LET studentMap == studentMapOf(roster)
        violations ==
            forEach(range(Len(chartSeats)),
                    LAMBDA acc, index :
                        seatViolations(chartSeats, studentMap, layoutType, acc, index),
                    <<>>)
    IN  [isValid |-> Len(violations) = 0, violations |-> violations]

-----------------------------------------------------------------------------
(* Charts handed to the validator and the scorer *)

\* the chart of `total` seats in which the students of the roster sit, in
\* roster order, at the positions of the set `places`
chartOf(roster, places, total) ==
    [k \in 1..total |->
        [position  |-> k - 1,
         studentId |-> IF k - 1 \in places
                       THEN roster[Cardinality({q \in places : q <= k - 1})].id
                       ELSE Null]]

\* every chart of `total` seats that seats the whole roster
ChartsOf(roster, total) ==
    {chartOf(roster, places, total) :
        places \in {P \in SUBSET (0..(total - 1)) : Cardinality(P) = Len(roster)}}

\* the layoutType argument: a layout kind, or left out
LayoutArguments == LayoutKinds \cup {None}

-----------------------------------------------------------------------------
(* Specification of validateSeatingArrangement *)

InitValidate ==
    /\ layout \in LayoutArguments
    /\ students \in AvoidRosters
    /\ totalSeats \in 0..MaxChartSeats
    /\ seats \in ChartsOf(students, totalSeats)
    /\ strategy = None
    /\ arrangement = <<>>
    /\ calls = 0
    /\ studentCount = Len(students)
    /\ seatCount = None
    /\ positions = None
    /\ validation = None
    /\ assessment = None
    /\ conflictResult = None
    /\ draggedStudent = Null
    /\ pc = "init"

\* one call validateSeatingArrangement(seats, students, layout)
Validate ==
    /\ pc = "init"
    /\ validation' = validateSeatingArrangement(seats, students, layout)
    /\ pc' = "validated"
    /\ UNCHANGED <<draggedStudent, conflictResult, students, strategy, layout, totalSeats, seats, arrangement,
                   calls, studentCount, seatCount, positions, assessment>>

NextValidate == Validate

SpecValidate == InitValidate /\ [][NextValidate]_vars

-----------------------------------------------------------------------------
(* Claims on validateSeatingArrangement *)

\* the student of the roster who sits at a position, if one does
occupied(position) ==
    /\ seats[position + 1].studentId # Null
    /\ seats[position + 1].studentId \in studentIds(students)

studentAt(position) == studentMapOf(students)[seats[position + 1].studentId]

\* seat j is among the adjacent positions of seat i, both seats are occupied
\* and one of the two students lists the other
conflictingNeighbours(i, j, layoutType) ==
    /\ includes(getAdjacentPositions(i, Len(seats), layoutType), j)
    /\ occupied(i) /\ occupied(j)
    /\ hasAvoidConflict(studentAt(i), studentAt(j))

\* C8: for every layout kind, whenever seat j is among the adjacent positions
\* of seat i, both seats are occupied, and either student lists the other,
\* validate reports at least one violation for that pair of students.
C8_BothDirections ==
    pc = "validated" =>
        \A i, j \in 0..(Len(seats) - 1) :
            conflictingNeighbours(i, j, layout) =>
                \/ includes(validation.violations,
                            <<studentAt(i).name, studentAt(j).name>>)
                \/ includes(validation.violations,
                            <<studentAt(j).name, studentAt(i).name>>)

\* C9: for traditional-rows, validate returns isValid = false and a non-empty
\* violations list exactly when two occupied seats adjacent under the rows
\* adjacency hold students of whom one lists the other; otherwise it returns
\* isValid = true and no violation.
C9_RowsValidity ==
    (pc = "validated" /\ layout = "traditional-rows") =>
        LET conflict == \E i, j \in 0..(Len(seats) - 1) :
                            conflictingNeighbours(i, j, "traditional-rows")
        IN  /\ validation.isValid = ~conflict
            /\ (Len(validation.violations) > 0) = conflict

\* a conflict in a column of the rows, listed by the student of the back seat
\* only, in capitals
C9_Witness ==
    /\ pc = "validated"
    /\ layout = "traditional-rows"
    /\ Len(seats) = 7
    /\ occupied(0) /\ occupied(6)
    /\ listsByName(studentAt(6), studentAt(0))
    /\ ~listsByName(studentAt(0), studentAt(6))
    /\ ~validation.isValid

-----------------------------------------------------------------------------
(* Scorer: assessSeatingEffectiveness *)

\* a score is the exact quotient num / den, den > 0
Quotient(num, den) == [num |-> num, den |-> den]

\* getFrontCenterPositions(totalSeats, layoutType)
getFrontCenterPositions(total, layoutType) ==
    CASE layoutType = "traditional-rows" -> <<0, 1, 2, 3, 6, 7, 8, 9>>
      [] layoutType = "horseshoe"        -> <<0, 1, 2, 3, 4, 5, 6, 7>>
      [] layoutType = "circle"           -> <<0, 1, 2, 3, 12, 13, 14, 15>>
      [] OTHER                           -> range(Min(8, total))

\* assessSkillMixing(seats, students): (mixingScore / totalComparisons) * 50
assessSkillMixing(chartSeats, roster) ==
    LET studentMap == studentMapOf(roster)
        counts ==
            forEach(range(Len(chartSeats)),
                LAMBDA acc, index :
                    LET seat == chartSeats[index + 1]
                    IN  IF seat.studentId = Null THEN acc
                        ELSE IF seat.studentId \notin DOMAIN studentMap THEN acc
                        ELSE
                          LET student == studentMap[seat.studentId]
                              adjacent ==
                                  getAdjacentPositions(index, Len(chartSeats), None)
                          IN  forEach(adjacent,
                                  LAMBDA in, adjPos :
                                      LET adjSeat == chartSeats[adjPos + 1]
                                      IN  IF adjSeat.studentId = Null THEN in
                                          ELSE IF adjSeat.studentId \notin DOMAIN studentMap
                                          THEN in
                                          ELSE
                                            LET adjStudent == studentMap[adjSeat.studentId]
                                            IN  [totalComparisons |->
                                                     in.totalComparisons + 1,
                                                 mixingScore |->
                                                     IF student.skillLevel #
                                                            adjStudent.skillLevel
                                                     THEN in.mixingScore + 2
                                                     ELSE in.mixingScore],
                                  acc),
                [mixingScore |-> 0, totalComparisons |-> 0])
    IN  IF counts.totalComparisons > 0
        THEN Quotient(counts.mixingScore * 50, counts.totalComparisons)
        ELSE Quotient(0, 1)

\* the score and the insights before the return statement
scoreBeforeReturn(chartSeats, roster, strategyName, layoutType) ==
    LET studentMap == studentMapOf(roster)
        frontCenterPositions == getFrontCenterPositions(Len(chartSeats), layoutType)
        idsInActionZone ==
            filter(frontCenterPositions,
                   LAMBDA pos : /\ pos < Len(chartSeats)
                                /\ chartSeats[pos + 1].studentId # Null
                                /\ chartSeats[pos + 1].studentId \in DOMAIN studentMap)
        beginnersInActionZone ==
            Len(filter(idsInActionZone,
                       LAMBDA pos : studentMap[chartSeats[pos + 1].studentId].skillLevel
                                        = "beginner"))
        totalBeginners == Len(filter(roster, LAMBDA x : x.skillLevel = "beginner"))
        \* actionZoneUtilization > 0.7 and < 0.3, in tenths
        zone == IF totalBeginners > 0
                THEN IF 10 * beginnersInActionZone > 7 * totalBeginners
                     THEN [insights |-> <<<<"Excellent use of attention zone", 0>>>>,
                           score |-> 100]
                     ELSE IF 10 * beginnersInActionZone < 3 * totalBeginners
                     THEN [insights |-> <<<<"Consider moving more struggling students", 0>>>>,
                           score |-> 100 - 15]
                     ELSE [insights |-> <<>>, score |-> 100]
                ELSE [insights |-> <<>>, score |-> 100]
        violations == validateSeatingArrangement(chartSeats, roster, None).violations
        checked == [insights |->
                        IF Len(violations) > 0
                        THEN Append(zone.insights,
                                    <<"seating constraint violations detected",
                                      Len(violations)>>)
                        ELSE zone.insights,
                    score |-> zone.score - Len(violations) * 10]
    IN  IF strategyName = "mixed-ability"
        THEN LET mixingScore == assessSkillMixing(chartSeats, roster)
             IN  [insights |->
                      IF mixingScore.num > 70 * mixingScore.den
                      THEN Append(checked.insights,
                                  <<"Good skill level mixing", 0>>)
                      ELSE checked.insights,
                  score |-> Quotient(checked.score * mixingScore.den
                                         + mixingScore.num - 50 * mixingScore.den,
                                     mixingScore.den)]
        ELSE [insights |-> checked.insights, score |-> Quotient(checked.score, 1)]

\* Math.max(0, Math.min(100, score))
clampScore(score) ==
    IF score.num > 100 * score.den THEN Quotient(100, 1)
    ELSE IF score.num < 0 THEN Quotient(0, 1)
    ELSE score

\* the return statement without Math.max and Math.min
assessSeatingEffectiveness_Unclamped(chartSeats, roster, strategyName, layoutType) ==
    scoreBeforeReturn(chartSeats, roster, strategyName, layoutType)

assessSeatingEffectiveness(chartSeats, roster, strategyName, layoutType) ==
    LET result == scoreBeforeReturn(chartSeats, roster, strategyName, layoutType)
    IN  [score |-> clampScore(result.score), insights |-> result.insights]

-----------------------------------------------------------------------------
(* Specification of assessSeatingEffectiveness *)

\* rosters in which every student lists every other, all of one skill level
CliqueRosters ==
    UNION {{[i \in 1..n |-> mkStudent(i, skill, "English", <<>>, <<>>,
                                      nameList(i, NamePairs(n, 1), n), "")] :
               skill \in SkillLevels} : n \in (MaxScored + 1)..MaxClique}

ScoredRosters == {r \in SkillAvoidRosters : Len(r) <= MaxScored} \cup CliqueRosters

\* the strategy argument: the one the scorer singles out, and another
ScoredStrategies == {"mixed-ability", "skill-clustering"}

InitAssess ==
    /\ strategy \in ScoredStrategies
    /\ layout \in LayoutKinds
    /\ students \in ScoredRosters
    /\ totalSeats \in 0..MaxScoredSeats
    /\ seats \in ChartsOf(students, totalSeats)
    /\ arrangement = <<>>
    /\ calls = 0
    /\ studentCount = Len(students)
    /\ seatCount = None
    /\ positions = None
    /\ validation = None
    /\ assessment = None
    /\ conflictResult = None
    /\ draggedStudent = Null
    /\ pc = "init"

\* one call assessSeatingEffectiveness(seats, students, strategy, layout)
Assess ==
    /\ pc = "init"
    /\ assessment' = assessSeatingEffectiveness(seats, students, strategy, layout)
    /\ pc' = "assessed"
    /\ UNCHANGED <<draggedStudent, conflictResult, students, strategy, layout, totalSeats, seats, arrangement,
                   calls, studentCount, seatCount, positions, validation>>

NextAssess == Assess

SpecAssess == InitAssess /\ [][NextAssess]_vars

-----------------------------------------------------------------------------
(* Claims on assessSeatingEffectiveness *)

\* C10: the score assessSeatingEffectiveness returns lies within [0, 100],
\* for every chart, roster, strategy and layout kind.
C10_ScoreWithinRange ==
    pc = "assessed" =>
        /\ assessment.score.den > 0
        /\ 0 <= assessment.score.num
        /\ assessment.score.num <= 100 * assessment.score.den

\* eight violations and no skill mixing take the score below zero before the
\* return statement
C10_Witness ==
    /\ pc = "assessed"
    /\ strategy = "mixed-ability"
    /\ Len(validateSeatingArrangement(seats, students, None).violations) = 8
    /\ scoreBeforeReturn(seats, students, strategy, layout).score.num < 0
    /\ assessment.score = Quotient(0, 1)

\* differing skill levels at every comparison take the score above 100 before
\* the return statement
C10_UpperReached ==
    /\ pc = "assessed"
    /\ scoreBeforeReturn(seats, students, strategy, layout).score.num
           > 100 * scoreBeforeReturn(seats, students, strategy, layout).score.den
    /\ assessment.score = Quotient(100, 1)

\* the beginners of the roster, and those of them seated at the layout's
\* front-center positions
beginnersOf(roster) == {i \in 1..Len(roster) : roster[i].skillLevel = "beginner"}

beginnersInFront(layoutType) ==
    LET front == getFrontCenterPositions(Len(seats), layoutType)
    IN  {p \in 0..(Len(seats) - 1) :
            /\ includes(front, p)
            /\ occupied(p)
            /\ studentAt(p).skillLevel = "beginner"}

\* C11: the scorer subtracts 10 for every violation that
\* validateSeatingArrangement(seats, students, layout) reports for the layout
\* kind handed to the scorer (stated where nothing else changes the score:
\* no beginner in the roster, a strategy other than mixed-ability).
C11_ViolationsOfLayout ==
    (pc = "assessed" /\ strategy # "mixed-ability" /\ beginnersOf(students) = {}) =>
        assessment.score =
            clampScore(Quotient(100 - 10 * Len(validateSeatingArrangement(
                                                   seats, students, layout).violations),
                                1))

\* C12: with a beginner in the roster the score before clamping is raised by
\* 15 when more than 70% of the beginners sit at the front-center positions
\* and lowered by 15 when fewer than 30% do (stated for a strategy other than
\* mixed-ability, after the 10 per violation the scorer counts).
C12_ZoneAdjustment ==
    (pc = "assessed" /\ strategy # "mixed-ability" /\ beginnersOf(students) # {}) =>
        LET inFront == Cardinality(beginnersInFront(layout))
            all == Cardinality(beginnersOf(students))
            adjustment == IF 10 * inFront > 7 * all THEN 15
                          ELSE IF 10 * inFront < 3 * all THEN 0 - 15
                          ELSE 0
            counted == Len(validateSeatingArrangement(seats, students, None).violations)
        IN  scoreBeforeReturn(seats, students, strategy, layout).score
                = Quotient(100 + adjustment - 10 * counted, 1)

-----------------------------------------------------------------------------
(* Claims on the strategies *)

\* the ids of an ordering
idsOf(ordering) == [i \in 1..Len(ordering) |-> ordering[i].id]

\* a name that matches a student of the roster, compared as the code compares
namesStudentOf(roster, name) ==
    \E j \in 1..Len(roster) : toLowerCase(roster[j].name) = toLowerCase(name)

\* the roster with every listed name that matches no student deleted
stripAbsent(roster) ==
    [i \in 1..Len(roster) |->
        [roster[i] EXCEPT
            !.worksWellWith = filter(@, LAMBDA name : namesStudentOf(roster, name)),
            !.avoidPairing  = filter(@, LAMBDA name : namesStudentOf(roster, name))]]

\* C13: for every deterministic strategy, deleting from the works-well-with
\* and avoid-pairing lists the names that match no student of the roster
\* leaves the ordering unchanged.
C13_AbsentNamesInert ==
    (pc = "generated" /\ strategy \in StrategyNames \ {"random"}) =>
        idsOf(arrangement) =
            idsOf(runStrategy(stripAbsent(students), strategy, totalSeats,
                              [i \in 1..(Len(students) - 1) |-> 0]))

-----------------------------------------------------------------------------
(* Specification of hasAvoidConflict *)

\* what an avoid-pairing list may hold: the names of the two students in
\* other cases, a prefix of each, a longer name, a name of nobody
Spellings == <<"ANN", "Ann", "An", "Anna", "bob", "Bo", "Zed">>

\* the list of the spellings whose indices are in S
spelled(S) ==
    LET chosen == filter([i \in 1..Len(Spellings) |-> i], LAMBDA i : i \in S)
    IN  [k \in 1..Len(chosen) |-> Spellings[chosen[k]]]

\* the avoid-pairing lists of up to MaxListed names
AvoidLists == {spelled(S) : S \in UpTo(1..Len(Spellings), MaxListed)}

InitConflict ==
    /\ students \in {<<mkStudent(1, "intermediate", "English", <<>>, <<>>, a1, ""),
                       mkStudent(2, "intermediate", "English", <<>>, <<>>, a2, "")>> :
                        a1 \in AvoidLists, a2 \in AvoidLists}
    /\ strategy = None
    /\ layout = None
    /\ totalSeats = 0
    /\ seats = <<>>
    /\ arrangement = <<>>
    /\ calls = 0
    /\ studentCount = Len(students)
    /\ seatCount = None
    /\ positions = None
    /\ validation = None
    /\ assessment = None
    /\ conflictResult = None
    /\ draggedStudent = Null
    /\ pc = "init"

\* hasAvoidConflict(student1, student2) and hasAvoidConflict(student2, student1)
CheckConflict(i, j) ==
    /\ pc = "init"
    /\ conflictResult' = [student1 |-> i, student2 |-> j,
                   forward  |-> hasAvoidConflict(students[i], students[j]),
                   backward |-> hasAvoidConflict(students[j], students[i]),
                   canPlace |-> canPlaceStudent(students[i], <<students[j]>>)]
    /\ pc' = "checked"
    /\ UNCHANGED <<draggedStudent, students, strategy, layout, totalSeats, seats, arrangement,
                   calls, studentCount, seatCount, positions, validation,
                   assessment>>

NextConflict == \E i, j \in 1..2 : i # j /\ CheckConflict(i, j)

SpecConflict == InitConflict /\ [][NextConflict]_vars

-----------------------------------------------------------------------------
(* Claims on hasAvoidConflict *)

\* the spellings that are a student's full name but for the case of letters
FullNameSpellings ==
    [name \in {"Ann", "Bob"} |-> IF name = "Ann" THEN {"ANN", "Ann"} ELSE {"bob"}]

\* student a lists the full name of student b, compared case-insensitively
listsFullName(a, b) ==
    \E k \in 1..Len(a.avoidPairing) : a.avoidPairing[k] \in FullNameSpellings[b.name]

\* C14: hasAvoidConflict holds for two students exactly when one's avoid list
\* contains the other's full name compared case-insensitively; it is the same
\* in both argument orders; a listed prefix or longer name is no conflict.
C14_ConflictPredicate ==
    pc = "checked" =>
        LET a == students[conflictResult.student1]
            b == students[conflictResult.student2]
        IN  /\ conflictResult.forward = (listsFullName(a, b) \/ listsFullName(b, a))
            /\ conflictResult.forward = conflictResult.backward
            /\ conflictResult.canPlace = ~conflictResult.forward

\* Bob lists Ann in capitals, Ann lists only a prefix of Bob's name
C14_Witness ==
    /\ pc = "checked"
    /\ conflictResult.student1 = 1
    /\ students[1].avoidPairing = <<"Bo">>
    /\ students[2].avoidPairing = <<"ANN", "Anna">>
    /\ conflictResult.forward /\ conflictResult.backward

\* only prefixes and longer names are listed: no conflict
C14_FragmentsOnly ==
    /\ pc = "checked"
    /\ students[1].avoidPairing = <<"Bo", "Zed">>
    /\ students[2].avoidPairing = <<"An", "Anna">>
    /\ ~conflictResult.forward /\ ~conflictResult.backward

\* the place of a skill level in the order beginner, intermediate, advanced
skillRank(level) ==
    CASE level = "beginner"     -> 1
      [] level = "intermediate" -> 2
      [] level = "advanced"     -> 3
      [] OTHER                  -> 4

\* the index of a student in the roster handed to the strategy
rosterIndex(id) == CHOOSE i \in 1..Len(students) : students[i].id = id

\* the roster with every avoid-pairing list emptied
withoutAvoidLists(roster) ==
    [i \in 1..Len(roster) |-> [roster[i] EXCEPT !.avoidPairing = <<>>]]

\* C15: skill-clustering outputs all beginners, then all intermediates, then
\* all advanced students, each bucket in roster order, and the ordering is the
\* same when the avoid-pairing lists are emptied.
C15_SkillClusters ==
    (pc = "generated" /\ strategy = "skill-clustering" /\ Len(students) > 0) =>
        /\ {arrangement[p].id : p \in 1..Len(arrangement)}
               = {students[i].id : i \in {k \in 1..Len(students) :
                                             students[k].skillLevel \in SkillLevels}}
        /\ \A p, q \in 1..Len(arrangement) :
               p < q =>
                   \/ skillRank(arrangement[p].skillLevel)
                          < skillRank(arrangement[q].skillLevel)
                   \/ /\ arrangement[p].skillLevel = arrangement[q].skillLevel
                      /\ rosterIndex(arrangement[p].id) < rosterIndex(arrangement[q].id)
        /\ idsOf(arrangement) =
               idsOf(runStrategy(withoutAvoidLists(students), strategy, totalSeats,
                                 [i \in 1..(Len(students) - 1) |-> 0]))

\* an advanced student heads the roster and ends the ordering, and the two
\* beginners seated first are in conflict
C15_Witness ==
    /\ pc = "generated"
    /\ strategy = "skill-clustering"
    /\ Len(students) = MaxStudents
    /\ students[1].skillLevel = "advanced"
    /\ arrangement[Len(arrangement)].id = students[1].id
    /\ arrangement[1].skillLevel = "beginner"
    /\ arrangement[2].skillLevel = "beginner"
    /\ hasAvoidConflict(arrangement[1], arrangement[2])

\* the notes of the model that contain "attention" or "support" in some case
MentionsAttention == {"Needs ATTENTION", "Extra Support"}

\* the group of a student in the attention-zone order: needs attention (1),
\* other (2), advanced (3)
attentionGroup(s) ==
    IF s.skillLevel = "beginner" \/ s.notes \in MentionsAttention THEN 1
    ELSE IF s.skillLevel # "advanced" THEN 2
    ELSE 3

\* C16: attention-zone outputs the students who are beginners or whose notes
\* contain 'attention' or 'support', then the other non-advanced students,
\* then the other advanced students, each group in roster order; a seated
\* needs-attention student has a lower seat index than any other seated one.
C16_AttentionFirst ==
    (pc = "generated" /\ strategy = "attention-zone" /\ Len(students) > 0) =>
        /\ IsPermutationOf(arrangement, students)
        /\ \A p, q \in 1..Len(arrangement) :
               p < q =>
                   \/ attentionGroup(arrangement[p]) < attentionGroup(arrangement[q])
                   \/ /\ attentionGroup(arrangement[p]) = attentionGroup(arrangement[q])
                      /\ rosterIndex(arrangement[p].id) < rosterIndex(arrangement[q].id)
        /\ \A i, j \in 1..Len(seats) :
               (/\ seats[i].studentId # Null /\ seats[j].studentId # Null
                /\ attentionGroup(students[rosterIndex(seats[i].studentId)]) = 1
                /\ attentionGroup(students[rosterIndex(seats[j].studentId)]) > 1)
                   => i < j

\* an advanced student with a support note is seated first, ahead of an
\* intermediate student who precedes them in the roster
C16_Witness ==
    /\ pc = "generated"
    /\ strategy = "attention-zone"
    /\ Len(students) >= 2
    /\ totalSeats >= 2
    /\ students[1].skillLevel = "intermediate" /\ students[1].notes = ""
    /\ students[2].skillLevel = "advanced" /\ students[2].notes = "Extra Support"
    /\ seats[1].studentId = students[2].id
    /\ seats[2].studentId = students[1].id

-----------------------------------------------------------------------------
(* The caller's arrays after a call.  The strategies write to arrays they   *)
(* create (filter, [], [...students], Map values): push, splice and the     *)
(* swaps of the shuffle; generateSeatingChart writes studentId into the     *)
(* seats it creates; the validator and the scorer push to their own         *)
(* violations and insights.  No statement assigns to an element of the      *)
(* students or seats argument or to a field of a Student.                   *)

\* the shuffle applied to the students array itself instead of a copy
argumentsAfterGenerate_InPlace(roster, strategyName, total, draws) ==
    [students |-> IF Len(roster) > 0 /\ strategyName \notin StrategyNames \ {"random"}
                  THEN generateRandomArrangement(roster, draws)
                  ELSE roster]

\* the students argument after generateSeatingChart returns
argumentsAfterGenerate(roster, strategyName, total, draws) ==
    [students |-> roster]

\* the seats and students arguments after validateSeatingArrangement returns
argumentsAfterValidate(chartSeats, roster, layoutType) ==
    [seats |-> chartSeats, students |-> roster]

\* the seats and students arguments after assessSeatingEffectiveness returns
argumentsAfterAssess(chartSeats, roster, strategyName, layoutType) ==
    [seats |-> chartSeats, students |-> roster]

-----------------------------------------------------------------------------
(* Specification of a caller that generates a chart for as many seats as    *)
(* there are students, validates it and scores it                           *)

InitCore ==
    /\ strategy \in StrategyNames \cup {UnknownStrategy}
    /\ students \in RostersFor(strategy)
    /\ layout \in {"traditional-rows", "horseshoe"}
    /\ totalSeats = 0
    /\ seats = <<>>
    /\ arrangement = <<>>
    /\ calls = 0
    /\ studentCount = Len(students)
    /\ seatCount = None
    /\ positions = None
    /\ validation = None
    /\ assessment = None
    /\ conflictResult = None
    /\ draggedStudent = Null
    /\ pc = "init"

CallGenerate(draws) ==
    /\ pc = "init"
    /\ totalSeats' = Len(students)
    /\ LET chart == generateSeatingChart(students, strategy, Len(students), draws)
       IN  seats' = chart.seats /\ arrangement' = chart.arrangement
    /\ students' = argumentsAfterGenerate(students, strategy, Len(students),
                                          draws).students
    /\ calls' = calls + 1
    /\ pc' = "generated"
    /\ UNCHANGED <<draggedStudent, strategy, layout, studentCount, seatCount, positions,
                   validation, assessment, conflictResult>>

CallValidate ==
    /\ pc = "generated"
    /\ validation' = validateSeatingArrangement(seats, students, layout)
    /\ LET after == argumentsAfterValidate(seats, students, layout)
       IN  seats' = after.seats /\ students' = after.students
    /\ pc' = "validated"
    /\ UNCHANGED <<draggedStudent, strategy, layout, totalSeats, arrangement, calls, studentCount,
                   seatCount, positions, assessment, conflictResult>>

CallAssess ==
    /\ pc = "validated"
    /\ assessment' = assessSeatingEffectiveness(seats, students, strategy, layout)
    /\ LET after == argumentsAfterAssess(seats, students, strategy, layout)
       IN  seats' = after.seats /\ students' = after.students
    /\ pc' = "assessed"
    /\ UNCHANGED <<draggedStudent, strategy, layout, totalSeats, arrangement, calls, studentCount,
                   seatCount, positions, validation, conflictResult>>

NextCore ==
    \/ \E draws \in DrawsFor(strategy, Len(students), 0) : CallGenerate(draws)
    \/ CallValidate
    \/ CallAssess

SpecCore == InitCore /\ [][NextCore]_vars

C18_UnknownIsRandom ==
    (pc = "generated" /\ strategy \in {"random", UnknownStrategy}
                      /\ Len(students) > 0) =>
        LET other == IF strategy = "random" THEN UnknownStrategy ELSE "random"
        IN  /\ \E draws \in AllDraws(Len(students)) :
                   idsOf(arrangement) =
                       idsOf(runStrategy(students, other, totalSeats, draws))
            /\ Len(seats) = totalSeats

\* the unknown name has produced the roster in reverse
C18_Witness ==
    /\ pc = "generated"
    /\ strategy = UnknownStrategy
    /\ Len(students) = MaxStudents
    /\ \A i \in 1..Len(students) :
           arrangement[i].id = students[Len(students) + 1 - i].id

\* the pairs of roster students in conflict with each other
conflictingPairs(roster) ==
    {pair \in SUBSET (1..Len(roster)) :
        /\ Cardinality(pair) = 2
        /\ \E i, j \in pair : i # j /\ hasAvoidConflict(roster[i], roster[j])}

\* the position of a student in an ordering
positionIn(ordering, id) == CHOOSE p \in 1..Len(ordering) : ordering[p].id = id

\* C19: for a roster in which exactly two students conflict with each other
\* and at least one further student conflicts with nobody, behavior-management
\* never places the two at consecutive positions.
C19_ConflictSeparated ==
    (/\ pc = "generated"
     /\ strategy = "behavior-management"
     /\ Cardinality(conflictingPairs(students)) = 1
     /\ Len(students) >= 3) =>
        \A pair \in conflictingPairs(students) :
            \A i, j \in pair :
                positionIn(arrangement, students[i].id)
                    # positionIn(arrangement, students[j].id) + 1

\* the positions in an ordering of the students whose primary language is L
speakerPositions(ordering, language) ==
    {p \in 1..Len(ordering) : ordering[p].primaryLanguage = language}

\* C20: for a roster without avoid-pairing constraints, the students who have
\* the same primary language (a language with at least two speakers) occupy
\* consecutive positions of the language-support ordering.
C20_LanguageTogether ==
    (/\ pc = "generated"
     /\ strategy = "language-support"
     /\ \A i \in 1..Len(students) : students[i].avoidPairing = <<>>) =>
        \A i \in 1..Len(students) :
            LET at == speakerPositions(arrangement, students[i].primaryLanguage)
            IN  \A p, q \in at : \A r \in p..q : r \in at

-----------------------------------------------------------------------------
(* Specification of the mixed-ability strategy on longer rosters *)

MaxMixed == 5        \* roster size handed to mixed-ability alone

\* the avoid relations of these rosters: one student lists an earlier one,
\* or two students list the same earlier one
MixedRelations(n) ==
    LET pairs   == {p \in (1..n) \X (1..n) : p[1] < p[2]}
        triples == {t \in (1..n) \X (1..n) \X (1..n) : t[1] < t[2] /\ t[2] < t[3]}
    IN  {{<<p[2], p[1]>>} : p \in pairs}
            \cup {{<<t[2], t[1]>>, <<t[3], t[1]>>} : t \in triples}

\* rosters of every skill assignment without avoid lists, and rosters of two
\* skill levels with an avoid relation
MixedRosters ==
    UNION {{[i \in 1..n |-> mkStudent(i, skill[i], "English", <<>>, <<>>, <<>>, "")] :
               skill \in [1..n -> SkillLevels]}
           \cup
           {[i \in 1..n |-> mkStudent(i, skill[i], "English", <<>>, <<>>,
                                      nameList(i, A, n), "")] :
               skill \in [1..n -> {"intermediate", "advanced"}],
               A \in MixedRelations(n)} : n \in 0..MaxMixed}

InitMixed ==
    /\ strategy = "mixed-ability"
    /\ students \in MixedRosters
    /\ layout = None
    /\ totalSeats = 0
    /\ seats = <<>>
    /\ arrangement = <<>>
    /\ calls = 0
    /\ studentCount = Len(students)
    /\ seatCount = None
    /\ positions = None
    /\ validation = None
    /\ assessment = None
    /\ conflictResult = None
    /\ draggedStudent = Null
    /\ pc = "init"

\* generateSeatingChart(students, 'mixed-ability', students.length), once
NextMixed ==
    /\ calls = 0
    /\ Generate(Len(students), [i \in 1..(Len(students) - 1) |-> 0])

SpecMixed == InitMixed /\ [][NextMixed]_vars

\* the three buckets of a roster
bucket(roster, level) == filter(roster, LAMBDA s : s.skillLevel = level)

\* a round-robin that tests a candidate against the last two placed only
roundRobinLastTwo(beginners, intermediate, advanced) ==
    LET maxLength == Max(Len(beginners), Max(Len(intermediate), Len(advanced)))
        place(group, i, mixed) ==
            IF i <= Len(group) /\ canPlaceStudent(group[i], sliceLast(mixed, 2))
            THEN Append(mixed, group[i]) ELSE mixed
    IN  forEach([k \in 1..maxLength |-> k],
                LAMBDA mixed, i :
                    place(intermediate, i,
                        place(beginners, i, place(advanced, i, mixed))),
                <<>>)

\* C21: in the round-robin of mixed-ability a candidate is appended at its
\* turn exactly when it has no avoid-pairing conflict with the last one or two
\* students placed; a conflict with a student placed before those two does
\* not defer it.  So the ordering is the one of a round-robin that tests the
\* last two placed, followed by the students it skipped.
C21_LastTwoOnly ==
    (pc = "generated" /\ strategy = "mixed-ability") =>
        LET beginners    == bucket(students, "beginner")
            intermediate == bucket(students, "intermediate")
            advanced     == bucket(students, "advanced")
        IN  arrangement =
                forEach(beginners \o intermediate \o advanced,
                        LAMBDA mixed, student :
                            IF ~includes(mixed, student) THEN Append(mixed, student)
                            ELSE mixed,
                        roundRobinLastTwo(beginners, intermediate, advanced))

\* C22: in mixed-ability the students the round-robin skipped are appended
\* after it in the order of the roster, each exactly once.
C22_SkippedInRosterOrder ==
    (pc = "generated" /\ strategy = "mixed-ability") =>
        LET placed == mixedRoundRobin(bucket(students, "beginner"),
                                      bucket(students, "intermediate"),
                                      bucket(students, "advanced"))
        IN  arrangement
                = placed \o filter(students, LAMBDA s : ~includes(placed, s))

\* rank of a bucket within one round of the round-robin
turnOf(level) ==
    CASE level = "advanced"     -> 0
      [] level = "beginner"     -> 1
      [] level = "intermediate" -> 2

\* 1-based index of the student within the bucket of its skill level
indexInBucket(roster, s) ==
    Cardinality({i \in 1..Len(roster) :
                    /\ roster[i].skillLevel = s.skillLevel
                    /\ \E j \in i..Len(roster) : roster[j] = s})

\* C23: for a roster without avoid-pairing constraints mixed-ability outputs
\* advanced[0], beginner[0], intermediate[0], advanced[1], ...: every student
\* once, ordered by index within the bucket and then by bucket, the buckets in
\* roster order; while all three buckets are non-exhausted no two consecutive
\* students have the same skill level.
C23_Interleaving ==
    (/\ pc = "generated" /\ strategy = "mixed-ability"
     /\ \A i \in 1..Len(students) : students[i].avoidPairing = <<>>) =>
        LET round(s) == indexInBucket(students, s)
            shortest == Min(Len(bucket(students, "advanced")),
                            Min(Len(bucket(students, "beginner")),
                                Len(bucket(students, "intermediate"))))
        IN  /\ IsPermutationOf(arrangement, students)
            /\ \A p, q \in 1..Len(arrangement) :
                   p < q =>
                       \/ round(arrangement[p]) < round(arrangement[q])
                       \/ /\ round(arrangement[p]) = round(arrangement[q])
                          /\ turnOf(arrangement[p].skillLevel)
                                 < turnOf(arrangement[q].skillLevel)
            /\ \A p \in 1..(Len(arrangement) - 1) :
                   (/\ round(arrangement[p]) <= shortest
                    /\ round(arrangement[p + 1]) <= shortest)
                       => arrangement[p].skillLevel # arrangement[p + 1].skillLevel

\* a full roster without avoid lists that fills two rounds of all three
\* buckets but one, and whose ordering is not the roster
C23_Witness ==
    /\ pc = "generated" /\ strategy = "mixed-ability"
    /\ Len(students) = MaxMixed
    /\ \A i \in 1..Len(students) : students[i].avoidPairing = <<>>
    /\ \A level \in SkillLevels : Len(bucket(students, level)) >= 1
    /\ Len(bucket(students, "advanced")) >= 2
    /\ Len(bucket(students, "beginner")) >= 2
    /\ arrangement # students
    /\ arrangement[1].skillLevel = "advanced"
    /\ arrangement[4].skillLevel = "advanced"

-----------------------------------------------------------------------------
(* Claims on collaborative-pairs *)

\* the students the first pass places together: each student with a
\* non-empty works-well-with list who is not yet placed, followed by those of
\* the named partners that are still unplaced and in no conflict with them
partnerGroups(roster) ==
    forEach(roster,
        LAMBDA st, student :
            IF student.id \in st.used \/ Len(student.worksWellWith) = 0 THEN st
            ELSE LET group ==
                         forEach(student.worksWellWith,
                             LAMBDA acc, partnerName :
                                 LET named == {i \in 1..Len(roster) :
                                                  /\ toLowerCase(roster[i].name)
                                                         = toLowerCase(partnerName)
                                                  /\ roster[i].id \notin acc.used}
                                     first == CHOOSE i \in named : \A j \in named : i <= j
                                 IN  IF named # {} /\ ~hasAvoidConflict(student, roster[first])
                                     THEN [members |-> Append(acc.members, roster[first]),
                                           used |-> acc.used \cup {roster[first].id}]
                                     ELSE acc,
                             [members |-> <<student>>, used |-> st.used \cup {student.id}])
                 IN  [groups |-> Append(st.groups, group.members), used |-> group.used],
        [groups |-> <<>>, used |-> {}]).groups

\* C24: in the final collaborative-pairs ordering a student placed in the
\* first pass is immediately followed by those of their named partners that
\* were still unplaced and in no conflict with them, in list order, with no
\* other student in between.
C24_PartnersFollow ==
    (pc = "generated" /\ strategy = "collaborative-pairs") =>
        LET groups == partnerGroups(students)
        IN  \A g \in 1..Len(groups) :
                \E p \in 1..Len(arrangement) :
                    /\ p + Len(groups[g]) - 1 <= Len(arrangement)
                    /\ SubSeq(arrangement, p, p + Len(groups[g]) - 1) = groups[g]

\* C25: collaborative-pairs places the remaining students with the fallback
\* of language-support: a remaining student in conflict with one of the last
\* two placed is inserted at index max(0, length - 2), otherwise appended.
C25_SameFallback ==
    (pc = "generated" /\ strategy = "collaborative-pairs") =>
        arrangement = languageRemaining(students, collaborativeFirstPass(students)).arranged

-----------------------------------------------------------------------------
(* Claims on the random strategy *)

\* the orderings that hold every student of the roster exactly once
permutationsOf(roster) ==
    {[i \in 1..Len(roster) |-> roster[p[i]]] :
        p \in {q \in [1..Len(roster) -> 1..Len(roster)] :
                  \A i, j \in 1..Len(roster) : q[i] = q[j] => i = j}}

\* C26: the random strategy is a Fisher-Yates shuffle: whatever the random
\* draws, its output holds every student of the roster exactly once, and
\* every permutation of the roster is the output for some draws.
C26_FisherYates ==
    (pc = "generated" /\ strategy = "random" /\ Len(students) > 0) =>
        /\ IsPermutationOf(arrangement, students)
        /\ \A ordering \in permutationsOf(students) :
               \E draws \in AllDraws(Len(students)) :
                   generateRandomArrangement(students, draws) = ordering

\* a shuffle of a full roster that reversed it
C26_Witness ==
    /\ pc = "generated" /\ strategy = "random"
    /\ Len(students) = MaxStudents
    /\ totalSeats = MaxStudents
    /\ arrangement = [i \in 1..Len(students) |-> students[Len(students) + 1 - i]]
    /\ seats[1].studentId = students[Len(students)].id

-----------------------------------------------------------------------------
(* Claims on the grid and the page *)

\* the layout kinds whose seat count has a fixed ceiling
CappedKinds == LayoutKinds \ {"groups"}

\* C27: for every layout kind with a fixed capacity ceiling and every roster
\* size n >= 1, the geometry generated for the resolved seat count has a
\* position for every seat index of the chart.
C27_SeatsHavePositions ==
    (pc = "rendered" /\ layout \in CappedKinds /\ studentCount >= 1) =>
        \A p \in 0..(seatCount - 1) :
            \E i \in 1..Len(positions) : positions[i].position = p

-----------------------------------------------------------------------------
(* The seating-chart page (pages/seating-chart.tsx 16-151) with the drag   *)
(* and drop of its grid component.  seats is the page's currentChart.      *)
(* A drag is modal in the browser: from dragstart to dragend no click      *)
(* reaches the page, while the students query can deliver at any time.     *)
(* pc names the last of handleGenerateChart, handleShuffleAll and          *)
(* handleDrop while nothing else has happened since, and is "page"         *)
(* otherwise.                                                              *)

MaxPageStudents == 3   \* roster size up to which every seat takes part in drops

MaxPageRoster   == 33  \* a roster size above every seat ceiling (16 to 32)

PageSizes == (0..MaxPageStudents) \cup {MaxPageRoster}

\* the random source of one call: unused by the strategy the page starts with
PageDraws(n) == {[i \in 1..(n - 1) |-> 0]}

\* the roster of n students the query delivers
pageRoster(n) ==
    [i \in 1..n |->
        [id |-> "s" \o ToString(i), name |-> "Student " \o ToString(i),
         primaryLanguage |-> "English", secondaryLanguages |-> <<>>,
         skillLevel |-> "intermediate", worksWellWith |-> <<>>,
         avoidPairing |-> <<>>, notes |-> ""]]

\* [...students].sort(() => Math.random() - 0.5): some ordering of the
\* roster; every one for a short roster, two of them for a long one
sortOutcomes(roster) ==
    IF Len(roster) <= MaxPageStudents THEN permutationsOf(roster)
    ELSE {roster, [i \in 1..Len(roster) |-> roster[Len(roster) + 1 - i]]}

\* the grid's seats (part_007 364-373): the chart, or empty seats for the
\* resolved seat count while the chart is empty (customX and customY of a
\* seat are left out)
gridSeats(chart, layoutType, roster) ==
    IF Len(chart) > 0 THEN chart
    ELSE IF Len(roster) > 0 THEN emptySeats(getSeatCount(layoutType, Len(roster)))
    ELSE <<>>

\* the seats of the grid that take part in drags and drops: every seat of a
\* short chart, the first and the last of a longer one
activeSeats(grid) ==
    {p \in 0..(Len(grid) - 1) :
        \/ Len(grid) <= MaxPageStudents + 1
        \/ p = 0
        \/ p = Len(grid) - 1}

\* newChart.findIndex(seat => seat.studentId === id), -1 when there is none
findIndex(chart, id) ==
    LET hits == {i \in 1..Len(chart) : chart[i].studentId = id}
    IN  IF hits = {} THEN -1 ELSE (CHOOSE i \in hits : \A j \in hits : i <= j) - 1

\* a drop that leaves the dragged student in the seat it came from
handleDrop_NoRemove(grid, dragged, targetPosition) ==
    [grid EXCEPT ![targetPosition + 1].studentId = dragged]

\* the chart handleDrop hands to onChartChange (part_007 867-893)
handleDrop(grid, dragged, targetPosition) ==
    LET currentPosition == findIndex(grid, dragged)
        removed == IF currentPosition # -1
                   THEN [grid EXCEPT ![currentPosition + 1].studentId = Null]
                   ELSE grid
        targetSeat == removed[targetPosition + 1]
        swapped == IF targetSeat.studentId # Null /\ currentPosition # -1
                   THEN [removed EXCEPT ![currentPosition + 1].studentId =
                                            targetSeat.studentId]
                   ELSE removed
    IN  [swapped EXCEPT ![targetPosition + 1].studentId = dragged]

\* a shuffle that builds one seat per student of the roster
shuffleChart_SeatPerStudent(chart, shuffled) ==
    [index \in 1..Len(shuffled) |->
        [position |-> index - 1, studentId |-> shuffled[index].id]]

\* the chart handleShuffleAll sets (seating-chart.tsx 141-146)
shuffleChart(chart, shuffled) ==
    [index \in 1..Len(chart) |->
        [chart[index] EXCEPT !.studentId =
            IF index <= Len(shuffled) THEN shuffled[index].id ELSE Null]]

\* the page as useState and useQuery initialise it
InitPage ==
    /\ layout = "traditional-rows"
    /\ strategy = "mixed-ability"
    /\ students = <<>>
    /\ studentCount = 0
    /\ seats = <<>>
    /\ totalSeats = 0
    /\ arrangement = <<>>
    /\ calls = 0
    /\ seatCount = None
    /\ positions = None
    /\ validation = None
    /\ assessment = None
    /\ conflictResult = None
    /\ draggedStudent = Null
    /\ pc = "page"

\* the students query delivers a roster of another size; the effect of
\* lines 35-37 clears the chart
StudentsChange(n) ==
    /\ n # Len(students)
    /\ students' = pageRoster(n)
    /\ studentCount' = n
    /\ seats' = <<>>
    /\ pc' = "page"
    /\ UNCHANGED <<layout, strategy, totalSeats, arrangement, calls, seatCount,
                   positions, validation, assessment, conflictResult, draggedStudent>>

\* a layout radio button is chosen; the effect of lines 35-37 clears the chart
SetLayout(kind) ==
    /\ draggedStudent = Null
    /\ kind # layout
    /\ layout' = kind
    /\ seats' = <<>>
    /\ pc' = "page"
    /\ UNCHANGED <<students, studentCount, strategy, totalSeats, arrangement, calls,
                   seatCount, positions, validation, assessment, conflictResult,
                   draggedStudent>>

HandleGenerateChart(draws) ==
    /\ draggedStudent = Null
    /\ Len(students) # 0
    /\ LET total == getSeatCount(layout, Len(students))
           chart == generateSeatingChart(students, strategy, total, draws)
       IN  /\ totalSeats' = total
           /\ seats' = chart.seats
           /\ arrangement' = chart.arrangement
    /\ pc' = "handleGenerateChart"
    /\ UNCHANGED <<students, studentCount, layout, strategy, calls, seatCount,
                   positions, validation, assessment, conflictResult, draggedStudent>>

HandleShuffleAll(shuffled) ==
    /\ draggedStudent = Null
    /\ Len(students) # 0
    /\ seats' = shuffleChart(seats, shuffled)
    /\ pc' = "handleShuffleAll"
    /\ UNCHANGED <<students, studentCount, layout, strategy, totalSeats, arrangement,
                   calls, seatCount, positions, validation, assessment,
                   conflictResult, draggedStudent>>

HandleClearChart ==
    /\ draggedStudent = Null
    /\ seats' = <<>>
    /\ pc' = "page"
    /\ UNCHANGED <<students, studentCount, layout, strategy, totalSeats, arrangement,
                   calls, seatCount, positions, validation, assessment,
                   conflictResult, draggedStudent>>

\* a desk of the grid is moved with the mouse: the grid hands its seats, with
\* the custom coordinates of the desk (which the model leaves out), to
\* onChartChange
HandleDeskDrag ==
    /\ draggedStudent = Null
    /\ Len(gridSeats(seats, layout, students)) > 0
    /\ seats' = gridSeats(seats, layout, students)
    /\ pc' = "page"
    /\ UNCHANGED <<students, studentCount, layout, strategy, totalSeats, arrangement,
                   calls, seatCount, positions, validation, assessment,
                   conflictResult, draggedStudent>>

\* a drag starts on the StudentSeat of a seat whose student the roster has
HandleDragStart(position) ==
    /\ draggedStudent = Null
    /\ seats[position + 1].studentId \in studentIds(students)
    /\ draggedStudent' = seats[position + 1].studentId
    /\ pc' = "page"
    /\ UNCHANGED <<students, studentCount, layout, strategy, seats, totalSeats,
                   arrangement, calls, seatCount, positions, validation, assessment,
                   conflictResult>>

HandleDragEnd ==
    /\ draggedStudent # Null
    /\ draggedStudent' = Null
    /\ pc' = "page"
    /\ UNCHANGED <<students, studentCount, layout, strategy, seats, totalSeats,
                   arrangement, calls, seatCount, positions, validation, assessment,
                   conflictResult>>

\* the dragged student is dropped on the seat of the grid at targetPosition
HandleDrop(targetPosition) ==
    /\ draggedStudent # Null
    /\ seats' = handleDrop(gridSeats(seats, layout, students), draggedStudent,
                           targetPosition)
    /\ pc' = "handleDrop"
    /\ UNCHANGED <<students, studentCount, layout, strategy, totalSeats, arrangement,
                   calls, seatCount, positions, validation, assessment,
                   conflictResult, draggedStudent>>

NextPage ==
    \/ \E n \in PageSizes : StudentsChange(n)
    \/ \E kind \in LayoutKinds : SetLayout(kind)
    \/ \E draws \in PageDraws(Len(students)) : HandleGenerateChart(draws)
    \/ \E shuffled \in sortOutcomes(students) : HandleShuffleAll(shuffled)
    \/ HandleClearChart
    \/ HandleDeskDrag
    \/ \E position \in activeSeats(seats) : HandleDragStart(position)
    \/ HandleDragEnd
    \/ \E targetPosition \in activeSeats(gridSeats(seats, layout, students)) :
           HandleDrop(targetPosition)

SpecPage == InitPage /\ [][NextPage]_vars

\* the student ids seated in a chart
seatedIn(chart) == {chart[i].studentId : i \in 1..Len(chart)} \ {Null}

\* C28: starting from a generated chart, after a drop (handleDrop) or a
\* Shuffle All no student id occupies two seats and the chart keeps its length
\* and its position indices; a drop of a student who is already seated keeps
\* the set of seated students.
C28_ChartIntegrity ==
    [][(pc' \in {"handleDrop", "handleShuffleAll"} /\ seats # <<>>) =>
          /\ \A i, j \in 1..Len(seats') :
                 (seats'[i].studentId # Null
                  /\ seats'[i].studentId = seats'[j].studentId) => i = j
          /\ Len(seats') = Len(seats)
          /\ \A i \in 1..Len(seats') : seats'[i].position = i - 1
          /\ (pc' = "handleDrop" /\ draggedStudent \in seatedIn(seats))
                 => seatedIn(seats') = seatedIn(seats)]_vars

\* a drop that swapped the first two students of a generated chart
C28_Witness ==
    /\ pc = "handleDrop"
    /\ strategy = "mixed-ability"
    /\ Len(students) = MaxPageStudents
    /\ Len(seats) = MaxPageStudents
    /\ seats[1].studentId = students[2].id
    /\ seats[2].studentId = students[1].id
    /\ draggedStudent \in {students[1].id, students[2].id}

C30_UnknownIsRows ==
    (layout \in UnknownLayouts) =>
        /\ pc = "resolved" =>
               seatCount = getSeatCount("traditional-rows", studentCount)
        /\ pc = "laid out" =>
               /\ positions = generateLayoutPositions("traditional-rows", seatCount)
               /\ \A position \in 0..(seatCount - 1) :
                      getAdjacentPositions(position, seatCount, layout)
                          = getAdjacentPositions(position, seatCount, "traditional-rows")

====
